---- MODULE Spec2Model ----
(***************************************************************************)
(* A model of ostring_base's OS-integration utilities:                     *)
(*   - Osys (src/src/os_autolaunch.rs): the process-wide auto-launch       *)
(*     registry, a tokio Mutex<Option<AutoLaunch>> with init_launch and    *)
(*     update_launch, run by several concurrent tasks;                     *)
(*   - PathManager (src/src/os_path.rs): the typed path builder.           *)
(***************************************************************************)
EXTENDS Integers, Sequences, FiniteSets, TLC

\* ------------------------------------------------------------------ bounds
NumTasks == 2
MaxCalls == 3
MaxDepth == 2
MaxJoins == 3
MaxEnsures == 3
MaxExt == 2
MaxExeDepth == 5
MaxGlobalCalls == 4

Tasks == 1..NumTasks

\* ------------------------------------------------------- registry: values
\* The errors init_launch returns (lines 22, 26, 31, 69); a call's Result is one of
\* these, "Ok", "ErrPlatform" (line 83) or "Panic" (unwrap), "none" until it returns.
InitErrs == {"ErrExe", "ErrStem", "ErrPath", "ErrBuild"}

\* Outcomes of lines 22-32: current_exe(), file_stem().to_str(), as_os_str().to_str().
ResolveOutcomes == {"Ok", "ErrExe", "ErrStem", "ErrPath"}

VARIABLES
    cache,      \* Osys.auto_launch's content: 0 is None, h > 0 is Some(handle h)
    holder,     \* the task holding the tokio Mutex, 0 when it is free
    waiters,    \* the Mutex's FIFO queue of tasks suspended in lock().await
    pc,         \* each task's position in init_launch / update_launch
    op,         \* each task's current (or last) call: "none", "init", "update"
    en,         \* the enable argument of the task's update_launch call
    built,      \* init_launch's local `auto`: the handle it built, 0 before
    res,        \* the Result of the task's last returned call (or of the nested init_launch)
    used,       \* the handle the task's call installed or acted on, 0 if none
    platRes,    \* what the platform enable/disable call of this call returned
    platCalls,  \* how many platform calls this call has issued
    startedEmpty, \* whether the cache was empty when the call started
    plat,       \* the platform state: TRUE when the login entry is registered
    started,    \* calls started so far, over all tasks
    nextHandle, \* handles built so far
    installs,   \* how many times a handle was stored in the cache
    resolves    \* how many times the identity (app_name, app_path) was resolved

regVars == <<cache, holder, waiters, pc, op, en, built, res, used, platRes,
             platCalls, startedEmpty, plat, started, nextHandle, installs, resolves>>

\* The PathManager builder chain (os_path.rs): one value passed by move through
\* dir/file, join_dir/join_file.
VARIABLES
    pm,         \* the PathManager value in hand, NoValue before dir/file and after an Err
    chain,      \* the calls of the chain so far: [op, ok]
    prev,       \* the value the chain's last join was called on, NoValue if none
    seg         \* the segment the chain's last join was given

chainVars == <<pm, chain, prev, seg>>

\* PathManager::ensure (os_path.rs) run by several threads on clones of one value,
\* over a filesystem that other processes change as well.
VARIABLES
    target,     \* the PathManager value ensure() is called on
    fs,         \* the filesystem: each node is "none", "dir", "file0" (empty) or "file1" (data)
    epc,        \* each thread's position in ensure
    eres,       \* the Result of the thread's last returned ensure()
    again,      \* whether the thread's call started after an ensure() had returned Ok
    someOk,     \* whether an ensure() call has returned Ok
    ensures,    \* ensure() calls started so far
    ext         \* steps other processes have taken on the filesystem

fsVars == <<target, fs, epc, eres, again, someOk, ensures, ext>>

\* The macOS bundle walk of init_launch (lines 37-47) and the walk that
\* test_macos_app_path_resolution runs (lines 161-174), on one executable path.
VARIABLES
    exe,        \* the executable's path (app_exe of line 22), NoValue when unused
    appPath,    \* the <<app_path>> lines 38-47 computed, <<>> before
    testPath    \* the <<result>> lines 161-174 computed, <<>> before

macVars == <<exe, appPath, testPath>>

\* Osys::global (lines 13-19): threads calling get_or_init on the static OnceCell.
VARIABLES
    cellState,  \* SYSOPT's state: "incomplete", "running" (a closure runs), "complete"
    cellVal,    \* the Osys instance SYSOPT holds, 0 while it holds none
    constructed, \* how many Osys instances the closure of lines 16-18 has built
    gpc,        \* each thread's position in global()
    got,        \* the instance the thread's last returned global() gave it, 0 if none
    waited,     \* whether the thread's call blocked on another thread's closure
    gcalls      \* global() calls started so far

globVars == <<cellState, cellVal, constructed, gpc, got, waited, gcalls>>

vars == <<regVars, chainVars, fsVars, macVars, globVars>>

\* ---------------------------------------------------------- the tokio Mutex
\* The task a release hands the lock to: the head of the queue.
Woken == IF waiters = <<>> THEN 0 ELSE Head(waiters)

\* Where a suspended lock().await resumes once it owns the guard.
AfterWait(p) == IF p = "u_wait" THEN "u_check" ELSE "i_store"

\* A lock that excludes nobody: every request is granted at once.
LockRequestNoExclusion(t, gotPc, waitPc) ==
    /\ holder' = t
    /\ waiters' = waiters
    /\ pc' = [pc EXCEPT ![t] = gotPc]

\* lock().await: the guard is granted when the Mutex is free, otherwise the task
\* is queued. The Mutex is not reentrant: the holder itself is queued as well.
LockRequest(t, gotPc, waitPc) ==
    IF holder = 0
    THEN /\ holder' = t
         /\ waiters' = waiters
         /\ pc' = [pc EXCEPT ![t] = gotPc]
    ELSE /\ holder' = holder
         /\ waiters' = Append(waiters, t)
         /\ pc' = [pc EXCEPT ![t] = waitPc]

\* Dropping the MutexGuard: the lock passes to the first waiter, which resumes.
Unlock(t, newPc) ==
    /\ holder' = Woken
    /\ waiters' = IF waiters = <<>> THEN <<>> ELSE Tail(waiters)
    /\ pc' = [u \in Tasks |->
                IF u = t THEN newPc
                ELSE IF u = Woken THEN AfterWait(pc[u])
                ELSE pc[u]]

\* --------------------------------------------------------------- platform
\* AutoLaunch::enable(): registers the login entry, or fails and changes nothing.
PlatformEnable(ok) == IF ok THEN TRUE ELSE plat

\* AutoLaunch::disable(): removes the login entry, or fails and changes nothing.
PlatformDisable(ok) == IF ok THEN FALSE ELSE plat

\* ------------------------------------------------------------ paths: values
Names == {"a", "b"}

SeqsUpTo(S, n) == UNION {[1..k -> S] : k \in 0..n}

\* A std::path::Path: absolute or relative, and its components.
Paths == [abs : BOOLEAN, comps : SeqsUpTo(Names, MaxDepth)]

\* The empty path "".
EmptyPath == [abs |-> FALSE, comps |-> <<>>]

\* No PathManager in hand.
NoValue == [path |-> EmptyPath, kind |-> "None"]

\* PathBuf::join (lines 50, 61): an absolute segment replaces the path, a relative
\* one is appended.
Join(p, s) == IF s.abs THEN s ELSE [abs |-> p.abs, comps |-> p.comps \o s.comps]

\* PathManager::dir and PathManager::file.
dir(p) == [path |-> p, kind |-> "Directory"]

file(p) == [path |-> p, kind |-> "File"]

\* join_dir without its check of path_type.
join_dir_unchecked(v, s) ==
    [ok |-> TRUE, val |-> [path |-> Join(v.path, s), kind |-> "Directory"]]

\* PathManager::join_dir: Err on a File, else the joined Directory.
join_dir(v, s) ==
    IF v.kind = "File"
    THEN [ok |-> FALSE, val |-> NoValue]
    ELSE [ok |-> TRUE, val |-> [path |-> Join(v.path, s), kind |-> "Directory"]]

\* PathManager::join_file: Err on a File, else the joined File.
join_file(v, s) ==
    IF v.kind = "File"
    THEN [ok |-> FALSE, val |-> NoValue]
    ELSE [ok |-> TRUE, val |-> [path |-> Join(v.path, s), kind |-> "File"]]

\* dirs::data_dir(): the platform's data directory, an absolute path, or None.
DataDirs == [some : BOOLEAN, path : {p \in Paths : p.abs}]

\* PathManager::get_data_dir: Err when there is no data directory.
get_data_dir(d) ==
    IF d.some THEN [ok |-> TRUE, val |-> dir(d.path)] ELSE [ok |-> FALSE, val |-> NoValue]

\* get_data_dir()?.join_dir(app_name): the common prefix of lines 130 and 135.
data_app_dir(d, app) ==
    IF get_data_dir(d).ok THEN join_dir(get_data_dir(d).val, app) ELSE get_data_dir(d)

\* get_data_file_path(app_name, filename).
get_data_file_path(d, app, f) ==
    IF data_app_dir(d, app).ok THEN join_file(data_app_dir(d, app).val, f)
    ELSE data_app_dir(d, app)

\* get_data_child_dir_path(app_name, child_dir), with child_dir given: Some(c).
get_data_child_dir_path(d, app, c) ==
    IF data_app_dir(d, app).ok THEN join_dir(data_app_dir(d, app).val, c)
    ELSE data_app_dir(d, app)

\* -------------------------------------------------------- paths: filesystem
\* The filesystem's nodes: one name per level below the root <<>>; relative
\* paths resolve against the working directory, the root.
FsNames == {"a"}

Nodes == SeqsUpTo(FsNames, MaxDepth)

Targets == [path : [abs : BOOLEAN, comps : Nodes], kind : {"Directory", "File"}]

\* Path::exists, Path::is_dir, Path::is_file; "" names nothing.
exists(f, p) == p # EmptyPath /\ f[p.comps] # "none"

is_dir(f, p) == p # EmptyPath /\ f[p.comps] = "dir"

is_file(f, p) == p # EmptyPath /\ f[p.comps] \in {"file0", "file1"}

\* Path::parent: None for "/" and "", else the path without its last component.
has_parent(p) == p.comps # <<>>

parent(p) == [abs |-> p.abs, comps |-> SubSeq(p.comps, 1, Len(p.comps) - 1)]

Prefixes(n) == {SubSeq(n, 1, k) : k \in 1..Len(n)}

\* A create_dir_all that fails when the directory is already there.
create_dir_all_ok_intolerant(f, p) ==
    /\ \A q \in Prefixes(p.comps) : f[q] \in {"none", "dir"}
    /\ (p.comps # <<>> => f[p.comps] = "none")

\* std::fs::create_dir_all: Ok on "" and when every component is absent or a
\* directory (an existing directory is accepted); the missing ones are created.
create_dir_all_ok(f, p) == \A q \in Prefixes(p.comps) : f[q] \in {"none", "dir"}

create_dir_all(f, p) ==
    IF create_dir_all_ok(f, p)
    THEN [n \in Nodes |-> IF n \in Prefixes(p.comps) THEN "dir" ELSE f[n]]
    ELSE f

\* std::fs::File::create: fails on "", on a directory and under a missing parent;
\* else the file exists and is empty afterwards (an existing file is truncated).
File_create_ok(f, p) ==
    /\ p.comps # <<>>
    /\ f[p.comps] # "dir"
    /\ f[parent(p).comps] = "dir"

File_create(f, p) == IF File_create_ok(f, p) THEN [f EXCEPT ![p.comps] = "file0"] ELSE f

\* ensure that accepts whatever exists at the path, of either kind.
ensure_check_any_kind(v, f) ==
    IF exists(f, v.path) THEN "Ok"
    ELSE IF v.kind = "Directory" THEN "e_mkdir" ELSE "e_parent"

\* ensure that goes on to create whatever is at the path.
ensure_check_blind(v, f) == IF v.kind = "Directory" THEN "e_mkdir" ELSE "e_parent"

\* Lines 68-71, 76-85 and 91-97: what ensure does after looking at the path.
ensure_check(v, f) ==
    IF v.kind = "Directory"
    THEN IF exists(f, v.path)
         THEN IF is_dir(f, v.path) THEN "Ok" ELSE "ErrNotDir"
         ELSE "e_mkdir"
    ELSE IF exists(f, v.path)
         THEN IF is_file(f, v.path) THEN "Ok" ELSE "ErrNotFile"
         ELSE "e_parent"

\* Lines 99-106: what ensure_file does after looking at the parent.
ensure_parent(v, f) ==
    IF ~has_parent(v.path) THEN "e_create"
    ELSE IF ~exists(f, parent(v.path)) THEN "e_pmk"
    ELSE IF ~is_dir(f, parent(v.path)) THEN "ErrParentNotDir"
    ELSE "e_create"

\* ------------------------------------------------------------------- Init
RegInit ==
    /\ cache = 0
    /\ holder = 0
    /\ waiters = <<>>
    /\ pc = [t \in Tasks |-> "idle"]
    /\ op = [t \in Tasks |-> "none"]
    /\ en = [t \in Tasks |-> FALSE]
    /\ built = [t \in Tasks |-> 0]
    /\ res = [t \in Tasks |-> "none"]
    /\ used = [t \in Tasks |-> 0]
    /\ platRes = [t \in Tasks |-> "none"]
    /\ platCalls = [t \in Tasks |-> 0]
    /\ startedEmpty = [t \in Tasks |-> FALSE]
    /\ plat \in BOOLEAN
    /\ started = 0
    /\ nextHandle = 0
    /\ installs = 0
    /\ resolves = 0

\* No PathManager chain has begun.
ChainIdle ==
    /\ pm = NoValue
    /\ chain = <<>>
    /\ prev = NoValue
    /\ seg = EmptyPath

\* No ensure() call has begun; the filesystem holds its root only.
FsIdle(v) ==
    /\ target = v
    /\ fs = [n \in Nodes |-> IF n = <<>> THEN "dir" ELSE "none"]
    /\ epc = [a \in Tasks |-> "idle"]
    /\ eres = [a \in Tasks |-> "none"]
    /\ again = [a \in Tasks |-> FALSE]
    /\ someOk = FALSE
    /\ ensures = 0
    /\ ext = 0

MacIdle ==
    /\ exe = NoValue
    /\ appPath = <<>>
    /\ testPath = <<>>

GlobIdle ==
    /\ cellState = "incomplete"
    /\ cellVal = 0
    /\ constructed = 0
    /\ gpc = [t \in Tasks |-> "idle"]
    /\ got = [t \in Tasks |-> 0]
    /\ waited = [t \in Tasks |-> FALSE]
    /\ gcalls = 0

Init == RegInit /\ ChainIdle /\ FsIdle(NoValue) /\ MacIdle /\ GlobIdle

\* A call begins: the per-call records start afresh.
BeginCall(t, o, e) ==
    /\ pc[t] = "idle"
    /\ started < MaxCalls
    /\ started' = started + 1
    /\ op' = [op EXCEPT ![t] = o]
    /\ en' = [en EXCEPT ![t] = e]
    /\ built' = [built EXCEPT ![t] = 0]
    /\ res' = [res EXCEPT ![t] = "none"]
    /\ used' = [used EXCEPT ![t] = 0]
    /\ platRes' = [platRes EXCEPT ![t] = "none"]
    /\ platCalls' = [platCalls EXCEPT ![t] = 0]
    /\ startedEmpty' = [startedEmpty EXCEPT ![t] = (cache = 0)]

\* ------------------------------------------------------------ init_launch
\* A caller invokes init_launch().
StartInit(t) ==
    /\ BeginCall(t, "init", FALSE)
    /\ pc' = [pc EXCEPT ![t] = "i_resolve"]
    /\ UNCHANGED <<cache, holder, waiters, plat, nextHandle, installs, resolves>>
    /\ UNCHANGED <<chainVars, fsVars, macVars, globVars>>

\* init_launch returns r before it reaches line 70: to its caller, or, when it was
\* called from update_launch (line 77), to update_launch.
InitReturnPc(t) == IF op[t] = "update" THEN "u_after" ELSE "idle"

\* Lines 22-64: the executable's path, app_name and app_path.
InitResolve(t) ==
    /\ pc[t] = "i_resolve"
    /\ \E r \in ResolveOutcomes :
         IF r = "Ok"
         THEN /\ resolves' = resolves + 1
              /\ pc' = [pc EXCEPT ![t] = "i_build"]
              /\ res' = res
         ELSE /\ resolves' = resolves
              /\ pc' = [pc EXCEPT ![t] = InitReturnPc(t)]
              /\ res' = [res EXCEPT ![t] = r]
    /\ UNCHANGED <<cache, holder, waiters, op, en, built, used, platRes, platCalls,
                   startedEmpty, plat, started, nextHandle, installs>>
    /\ UNCHANGED <<chainVars, fsVars, macVars, globVars>>

\* An init_launch that empties the cache when build() fails.
InitBuildClearsOnFail(t) ==
    /\ pc[t] = "i_build"
    /\ \E ok \in BOOLEAN :
         IF ok
         THEN /\ nextHandle' = nextHandle + 1
              /\ built' = [built EXCEPT ![t] = nextHandle + 1]
              /\ pc' = [pc EXCEPT ![t] = "i_lock"]
              /\ res' = res
              /\ cache' = cache
         ELSE /\ nextHandle' = nextHandle
              /\ built' = built
              /\ pc' = [pc EXCEPT ![t] = InitReturnPc(t)]
              /\ res' = [res EXCEPT ![t] = "ErrBuild"]
              /\ cache' = 0
    /\ UNCHANGED <<holder, waiters, op, en, used, platRes, platCalls,
                   startedEmpty, plat, started, installs, resolves>>
    /\ UNCHANGED <<chainVars, fsVars, macVars, globVars>>

\* Lines 66-69: AutoLaunchBuilder::build()?.
InitBuild(t) ==
    /\ pc[t] = "i_build"
    /\ \E ok \in BOOLEAN :
         IF ok
         THEN /\ nextHandle' = nextHandle + 1
              /\ built' = [built EXCEPT ![t] = nextHandle + 1]
              /\ pc' = [pc EXCEPT ![t] = "i_lock"]
              /\ res' = res
         ELSE /\ nextHandle' = nextHandle
              /\ built' = built
              /\ pc' = [pc EXCEPT ![t] = InitReturnPc(t)]
              /\ res' = [res EXCEPT ![t] = "ErrBuild"]
    /\ UNCHANGED <<cache, holder, waiters, op, en, used, platRes, platCalls,
                   startedEmpty, plat, started, installs, resolves>>
    /\ UNCHANGED <<chainVars, fsVars, macVars, globVars>>

\* Line 70, self.auto_launch.lock().await.
InitLock(t) ==
    /\ pc[t] = "i_lock"
    /\ LockRequest(t, "i_store", "i_wait")
    /\ UNCHANGED <<cache, op, en, built, res, used, platRes, platCalls,
                   startedEmpty, plat, started, nextHandle, installs, resolves>>
    /\ UNCHANGED <<chainVars, fsVars, macVars, globVars>>

\* Line 70, `*guard = Some(auto)`, the temporary guard's drop, and line 71.
InitStore(t) ==
    /\ pc[t] = "i_store"
    /\ cache' = built[t]
    /\ installs' = installs + 1
    /\ used' = [used EXCEPT ![t] = built[t]]
    /\ res' = [res EXCEPT ![t] = "Ok"]
    /\ Unlock(t, InitReturnPc(t))
    /\ UNCHANGED <<op, en, built, platRes, platCalls, startedEmpty, plat, started,
                   nextHandle, resolves>>
    /\ UNCHANGED <<chainVars, fsVars, macVars, globVars>>

\* ---------------------------------------------------------- update_launch
\* A caller invokes update_launch(e); line 75 asks for the lock.
StartUpdate(t) ==
    \E e \in BOOLEAN :
        /\ BeginCall(t, "update", e)
        /\ LockRequest(t, "u_check", "u_wait")
        /\ UNCHANGED <<cache, plat, nextHandle, installs, resolves>>
        /\ UNCHANGED <<chainVars, fsVars, macVars, globVars>>

\* Lines 76-77: with the guard held, an empty cache calls init_launch.
UpdateCheck(t) ==
    /\ pc[t] = "u_check"
    /\ pc' = [pc EXCEPT ![t] = IF cache = 0 THEN "i_resolve" ELSE "u_act"]
    /\ UNCHANGED <<cache, holder, waiters, op, en, built, res, used, platRes,
                   platCalls, startedEmpty, plat, started, nextHandle, installs, resolves>>
    /\ UNCHANGED <<chainVars, fsVars, macVars, globVars>>

\* update_launch going on to the platform call whatever init_launch returned.
UpdateAfterInitIgnoresErr(t) ==
    /\ pc[t] = "u_after"
    /\ pc' = [pc EXCEPT ![t] = "u_act"]
    /\ UNCHANGED <<cache, holder, waiters, op, en, built, res, used, platRes, platCalls,
                   startedEmpty, plat, started, nextHandle, installs, resolves>>
    /\ UNCHANGED <<chainVars, fsVars, macVars, globVars>>

\* Line 77, the `?` on init_launch's result: an Err returns it (the guard drops).
UpdateAfterInit(t) ==
    /\ pc[t] = "u_after"
    /\ IF res[t] = "Ok"
       THEN /\ pc' = [pc EXCEPT ![t] = "u_act"]
            /\ UNCHANGED <<holder, waiters>>
       ELSE Unlock(t, "idle")
    /\ UNCHANGED <<cache, op, en, built, res, used, platRes, platCalls,
                   startedEmpty, plat, started, nextHandle, installs, resolves>>
    /\ UNCHANGED <<chainVars, fsVars, macVars, globVars>>

\* disable()'s error propagated like enable()'s.
UpdateResultPropagatesAll(e, ok) == IF ~ok THEN "ErrPlatform" ELSE "Ok"

\* enable()'s error swallowed like disable()'s.
UpdateResultSwallowsAll(e, ok) == "Ok"

\* What update_launch returns for the platform call's outcome (lines 82-89):
\* enable()? propagates an Err, disable()'s result is matched by `_ => {}`.
UpdateResult(e, ok) == IF e /\ ~ok THEN "ErrPlatform" ELSE "Ok"

\* Lines 82-87: auto_launch.as_ref().unwrap() and the platform call on it.
UpdateAct(t) ==
    /\ pc[t] = "u_act"
    /\ IF cache = 0
       THEN /\ res' = [res EXCEPT ![t] = "Panic"]
            /\ UNCHANGED <<plat, platRes, platCalls, used>>
       ELSE \E ok \in BOOLEAN :
              /\ plat' = IF en[t] THEN PlatformEnable(ok) ELSE PlatformDisable(ok)
              /\ platRes' = [platRes EXCEPT ![t] = IF ok THEN "ok" ELSE "err"]
              /\ platCalls' = [platCalls EXCEPT ![t] = @ + 1]
              /\ used' = [used EXCEPT ![t] = cache]
              /\ res' = [res EXCEPT ![t] = UpdateResult(en[t], ok)]
    /\ pc' = [pc EXCEPT ![t] = "u_ret"]
    /\ UNCHANGED <<cache, holder, waiters, op, en, built, startedEmpty, started,
                   nextHandle, installs, resolves>>
    /\ UNCHANGED <<chainVars, fsVars, macVars, globVars>>

\* An update_launch that returns without dropping its guard.
UpdateReturnKeepsLock(t) ==
    /\ pc[t] = "u_ret"
    /\ pc' = [pc EXCEPT ![t] = "idle"]
    /\ UNCHANGED <<cache, holder, waiters, op, en, built, res, used, platRes, platCalls,
                   startedEmpty, plat, started, nextHandle, installs, resolves>>
    /\ UNCHANGED <<chainVars, fsVars, macVars, globVars>>

\* Line 89 (or the early return of line 83): the guard drops, the call returns.
UpdateReturn(t) ==
    /\ pc[t] = "u_ret"
    /\ Unlock(t, "idle")
    /\ UNCHANGED <<cache, op, en, built, res, used, platRes, platCalls,
                   startedEmpty, plat, started, nextHandle, installs, resolves>>
    /\ UNCHANGED <<chainVars, fsVars, macVars, globVars>>

\* ------------------------------------------------------------------- Next
\* A step of a call that is under way.
TaskStep(t) ==
    \/ InitResolve(t)
    \/ InitBuild(t)
    \/ InitLock(t)
    \/ InitStore(t)
    \/ UpdateCheck(t)
    \/ UpdateAfterInit(t)
    \/ UpdateAct(t)
    \/ UpdateReturn(t)

Next ==
    \E t \in Tasks :
        \/ StartInit(t)
        \/ StartUpdate(t)
        \/ TaskStep(t)

Spec == Init /\ [][Next]_vars

\* The runtime polls every task that can run; the Mutex's queue is FIFO.
FairSpec == Spec /\ \A t \in Tasks : WF_vars(TaskStep(t))

\* ------------------------------------------------------ PathManager chain
\* PathManager::dir(p) begins a chain.
PathDir ==
    /\ chain = <<>>
    /\ \E p \in Paths :
         /\ pm' = dir(p)
         /\ chain' = <<[op |-> "dir", ok |-> TRUE]>>
    /\ UNCHANGED <<prev, seg>>
    /\ UNCHANGED <<regVars, fsVars, macVars, globVars>>

\* PathManager::file(p) begins a chain.
PathFile ==
    /\ chain = <<>>
    /\ \E p \in Paths :
         /\ pm' = file(p)
         /\ chain' = <<[op |-> "file", ok |-> TRUE]>>
    /\ UNCHANGED <<prev, seg>>
    /\ UNCHANGED <<regVars, fsVars, macVars, globVars>>

\* The segments a join may be given here: the result stays within MaxDepth.
Fits(s) == s.abs \/ Len(pm.path.comps) + Len(s.comps) <= MaxDepth

\* .join_dir(s) on the value in hand, which the call consumes.
PathJoinDir ==
    /\ pm # NoValue
    /\ Len(chain) <= MaxJoins
    /\ \E s \in Paths :
         /\ Fits(s)
         /\ pm' = join_dir(pm, s).val
         /\ chain' = Append(chain, [op |-> "join_dir", ok |-> join_dir(pm, s).ok])
         /\ prev' = pm
         /\ seg' = s
    /\ UNCHANGED <<regVars, fsVars, macVars, globVars>>

\* .join_file(s) on the value in hand, which the call consumes.
PathJoinFile ==
    /\ pm # NoValue
    /\ Len(chain) <= MaxJoins
    /\ \E s \in Paths :
         /\ Fits(s)
         /\ pm' = join_file(pm, s).val
         /\ chain' = Append(chain, [op |-> "join_file", ok |-> join_file(pm, s).ok])
         /\ prev' = pm
         /\ seg' = s
    /\ UNCHANGED <<regVars, fsVars, macVars, globVars>>

\* The arguments the helpers may be given here: the result stays within MaxDepth.
FitsAll(d, app, f) == Len(d.path.comps) + Len(app.comps) + Len(f.comps) <= MaxDepth

\* get_data_file_path(app, f): a whole chain in one call.
PathDataFile ==
    /\ chain = <<>>
    /\ \E d \in DataDirs, app \in Paths, f \in Paths :
         /\ FitsAll(d, app, f)
         /\ pm' = get_data_file_path(d, app, f).val
         /\ chain' = <<[op |-> "get_data_file_path", ok |-> get_data_file_path(d, app, f).ok]>>
         /\ prev' = data_app_dir(d, app).val
         /\ seg' = f
    /\ UNCHANGED <<regVars, fsVars, macVars, globVars>>

\* get_data_child_dir_path(app, child_dir): with None the chain ends at join_dir(app).
PathDataChildDir ==
    /\ chain = <<>>
    /\ \E d \in DataDirs, app \in Paths :
         \/ /\ FitsAll(d, app, EmptyPath)
            /\ pm' = data_app_dir(d, app).val
            /\ chain' = <<[op |-> "get_data_child_dir_path", ok |-> data_app_dir(d, app).ok]>>
            /\ prev' = get_data_dir(d).val
            /\ seg' = app
         \/ \E c \in Paths :
              /\ FitsAll(d, app, c)
              /\ pm' = get_data_child_dir_path(d, app, c).val
              /\ chain' = <<[op |-> "get_data_child_dir_path",
                             ok |-> get_data_child_dir_path(d, app, c).ok]>>
              /\ prev' = data_app_dir(d, app).val
              /\ seg' = c
    /\ UNCHANGED <<regVars, fsVars, macVars, globVars>>

ChainNext ==
    \/ PathDir
    \/ PathFile
    \/ PathJoinDir
    \/ PathJoinFile
    \/ PathDataFile
    \/ PathDataChildDir

ChainInit == RegInit /\ ~plat /\ ChainIdle /\ FsIdle(NoValue) /\ MacIdle /\ GlobIdle

ChainSpec == ChainInit /\ [][ChainNext]_vars

\* ----------------------------------------------------------------- ensure
\* ensure() returns r.
EnsureReturn(a, r) ==
    /\ epc' = [epc EXCEPT ![a] = "idle"]
    /\ eres' = [eres EXCEPT ![a] = r]
    /\ someOk' = (someOk \/ r = "Ok")

\* A thread calls ensure() on its clone of the value.
EnsureStart(a) ==
    /\ epc[a] = "idle"
    /\ ensures < MaxEnsures
    /\ ensures' = ensures + 1
    /\ epc' = [epc EXCEPT ![a] = "e_check"]
    /\ eres' = [eres EXCEPT ![a] = "none"]
    /\ again' = [again EXCEPT ![a] = someOk]
    /\ UNCHANGED <<target, fs, someOk, ext>>
    /\ UNCHANGED <<regVars, chainVars, macVars, globVars>>

\* Lines 68-71 and the exists()/is_dir()/is_file() tests of lines 76-78, 91-93.
EnsureCheck(a) ==
    /\ epc[a] = "e_check"
    /\ LET r == ensure_check(target, fs) IN
         IF r \in {"e_mkdir", "e_parent"}
         THEN /\ epc' = [epc EXCEPT ![a] = r]
              /\ UNCHANGED <<eres, someOk>>
         ELSE EnsureReturn(a, r)
    /\ UNCHANGED <<target, fs, again, ensures, ext>>
    /\ UNCHANGED <<regVars, chainVars, macVars, globVars>>

\* ensure_dir returning Ok whatever create_dir_all returned.
EnsureDirCreateIgnoresErr(a) ==
    /\ epc[a] = "e_mkdir"
    /\ fs' = create_dir_all(fs, target.path)
    /\ EnsureReturn(a, "Ok")
    /\ UNCHANGED <<target, again, ensures, ext>>
    /\ UNCHANGED <<regVars, chainVars, macVars, globVars>>

\* Line 84: create_dir_all(&self.path)?.
EnsureDirCreate(a) ==
    /\ epc[a] = "e_mkdir"
    /\ fs' = create_dir_all(fs, target.path)
    /\ EnsureReturn(a, IF create_dir_all_ok(fs, target.path) THEN "Ok" ELSE "ErrIo")
    /\ UNCHANGED <<target, again, ensures, ext>>
    /\ UNCHANGED <<regVars, chainVars, macVars, globVars>>

\* Lines 99-106: the parent's exists()/is_dir() tests.
EnsureFileParent(a) ==
    /\ epc[a] = "e_parent"
    /\ LET r == ensure_parent(target, fs) IN
         IF r \in {"e_pmk", "e_create"}
         THEN /\ epc' = [epc EXCEPT ![a] = r]
              /\ UNCHANGED <<eres, someOk>>
         ELSE EnsureReturn(a, r)
    /\ UNCHANGED <<target, fs, again, ensures, ext>>
    /\ UNCHANGED <<regVars, chainVars, macVars, globVars>>

\* Line 101: create_dir_all(parent)?.
EnsureFileParentCreate(a) ==
    /\ epc[a] = "e_pmk"
    /\ fs' = create_dir_all(fs, parent(target.path))
    /\ IF create_dir_all_ok(fs, parent(target.path))
       THEN /\ epc' = [epc EXCEPT ![a] = "e_create"]
            /\ UNCHANGED <<eres, someOk>>
       ELSE EnsureReturn(a, "ErrIo")
    /\ UNCHANGED <<target, again, ensures, ext>>
    /\ UNCHANGED <<regVars, chainVars, macVars, globVars>>

\* Line 109: File::create(&self.path)?, and line 112.
EnsureFileCreate(a) ==
    /\ epc[a] = "e_create"
    /\ fs' = File_create(fs, target.path)
    /\ EnsureReturn(a, IF File_create_ok(fs, target.path) THEN "Ok" ELSE "ErrIo")
    /\ UNCHANGED <<target, again, ensures, ext>>
    /\ UNCHANGED <<regVars, chainVars, macVars, globVars>>

\* Another process creates a directory, or a file with data in it.
ExtCreate ==
    /\ ext < MaxExt
    /\ \E n \in Nodes \ {<<>>}, k \in {"dir", "file1"} :
         /\ fs[n] = "none"
         /\ fs[SubSeq(n, 1, Len(n) - 1)] = "dir"
         /\ fs' = [fs EXCEPT ![n] = k]
    /\ ext' = ext + 1
    /\ UNCHANGED <<target, epc, eres, again, someOk, ensures>>
    /\ UNCHANGED <<regVars, chainVars, macVars, globVars>>

\* Another process (or the application) writes data into an empty file.
ExtWrite ==
    /\ ext < MaxExt
    /\ \E n \in Nodes :
         /\ fs[n] = "file0"
         /\ fs' = [fs EXCEPT ![n] = "file1"]
    /\ ext' = ext + 1
    /\ UNCHANGED <<target, epc, eres, again, someOk, ensures>>
    /\ UNCHANGED <<regVars, chainVars, macVars, globVars>>

EnsureStep(a) ==
    \/ EnsureCheck(a)
    \/ EnsureDirCreate(a)
    \/ EnsureFileParent(a)
    \/ EnsureFileParentCreate(a)
    \/ EnsureFileCreate(a)

FsNext ==
    \/ \E a \in Tasks : EnsureStart(a) \/ EnsureStep(a)
    \/ ExtCreate
    \/ ExtWrite

FsInit == RegInit /\ ~plat /\ ChainIdle /\ MacIdle /\ GlobIdle /\ \E v \in Targets : FsIdle(v)

FsSpec == FsInit /\ [][FsNext]_vars

\* ================================================================ claims
\* The positions at which a task mutates the cached handle: the platform
\* enable/disable call on it (lines 83-84) and the store of line 70.
Mutating(t) == pc[t] \in {"u_act", "i_store"}

\* C1: every update_launch call eventually returns, the first one on an empty
\* cache included (checked under FairSpec).
C1_UpdateLaunchReturns ==
    \A t \in Tasks : (op[t] = "update" /\ pc[t] # "idle") ~> (pc[t] = "idle")

\* C2: first calls that started concurrently on an empty cache and returned Ok
\* all refer to one handle, the cached one.
C2_FirstCallsConverge ==
    \A t, u \in Tasks :
        (/\ t # u
         /\ pc[t] = "idle" /\ pc[u] = "idle"
         /\ startedEmpty[t] /\ startedEmpty[u]
         /\ res[t] = "Ok" /\ res[u] = "Ok")
        => (used[t] = used[u] /\ cache = used[t])

\* C3: update_launch(false) never returns the platform's error: with a handle to
\* act on it returns Ok, whatever disable() returned.
C3_DisableErrorDiscarded ==
    \A t \in Tasks :
        (op[t] = "update" /\ ~en[t] /\ pc[t] = "idle")
        => (/\ res[t] \in {"Ok"} \cup InitErrs
            /\ (used[t] # 0 => res[t] = "Ok"))

C3_Witness ==
    \E t \in Tasks :
        /\ op[t] = "update" /\ ~en[t] /\ pc[t] = "idle"
        /\ platRes[t] = "err" /\ res[t] = "Ok" /\ ~plat

\* C4: update_launch(true) returns the platform's error when enable() failed,
\* returns Ok only when enable() succeeded, and calls enable() at most once.
C4_EnableErrorSurfaced ==
    \A t \in Tasks :
        (op[t] = "update" /\ en[t] /\ pc[t] = "idle")
        => (/\ (platRes[t] = "err" => res[t] = "ErrPlatform")
            /\ (res[t] = "Ok" => platRes[t] = "ok")
            /\ platCalls[t] <= 1)

C4_Witness ==
    \E t \in Tasks :
        /\ op[t] = "update" /\ en[t] /\ pc[t] = "idle"
        /\ platRes[t] = "err" /\ res[t] = "ErrPlatform" /\ platCalls[t] = 1

\* C5: over any sequence of calls the identity is resolved at most once and a
\* handle is installed at most once.
C5_InstalledAtMostOnce == installs <= 1 /\ resolves <= 1

\* C6: when init_launch fails inside update_launch, update_launch returns that
\* error, issues no platform call, and the cache stays empty.
C6_InitFailurePropagates ==
    [][\A t \in Tasks :
         (pc[t] = "u_after" /\ res[t] \in InitErrs /\ pc'[t] # "u_after")
         => (/\ pc'[t] = "idle"
             /\ res'[t] = res[t]
             /\ platCalls'[t] = 0 /\ platRes'[t] = "none"
             /\ plat' = plat
             /\ cache = 0 /\ cache' = 0
             /\ holder' # t)]_vars

C6_Witness ==
    \E t, u \in Tasks :
        /\ op[t] = "update" /\ en[t] /\ pc[t] = "idle" /\ res[t] \in InitErrs
        /\ op[u] = "update" /\ ~en[u] /\ pc[u] = "idle" /\ res[u] \in InitErrs
        /\ platCalls[t] = 0 /\ platCalls[u] = 0
        /\ cache = 0

\* C7: a call that owns the guard returns: update_launch(false) with the entry
\* never registered returns Ok and leaves it unregistered, update_launch(true)
\* returns Ok with the entry registered; only a failure of the environment
\* (initialization, the platform's enable) yields an Err (checked under FairSpec).
C7_EnableDisableIdempotent ==
    \A t \in Tasks :
        /\ (pc[t] = "u_check" /\ ~en[t] /\ ~plat)
              ~> (pc[t] = "idle" /\ res[t] \in {"Ok"} \cup InitErrs /\ ~plat)
        /\ (pc[t] = "u_check" /\ en[t])
              ~> (/\ pc[t] = "idle"
                  /\ res[t] \in {"Ok", "ErrPlatform"} \cup InitErrs
                  /\ (res[t] = "Ok" => plat))

\* C8: at most one task at a time issues a platform call or installs a handle,
\* and it owns the lock while it does.
C8_MutationsSerialized ==
    \A t, u \in Tasks :
        /\ (Mutating(t) => holder = t)
        /\ (Mutating(t) /\ Mutating(u) => t = u)

C8_Witness ==
    \E t, u \in Tasks :
        /\ t # u
        /\ pc[t] = "u_act" /\ cache # 0
        /\ pc[u] = "i_wait"

\* C9: a join on a File-kind value returns Err: no join directly after file() or
\* after a successful join_file succeeds, so a chain without an Err has at most
\* one join_file, its last call.
C9_FileRejectsJoins ==
    /\ \A i \in 2..Len(chain) :
         (chain[i-1].ok /\ chain[i-1].op \in {"file", "join_file"}) => ~chain[i].ok
    /\ (\A i \in 1..Len(chain) : chain[i].ok)
         => (/\ \A i \in 1..Len(chain) : chain[i].op = "join_file" => i = Len(chain)
             /\ Cardinality({i \in 1..Len(chain) : chain[i].op = "join_file"}) <= 1)
    /\ (chain # <<>> /\ ~chain[Len(chain)].ok) => pm = NoValue

C9_Witness ==
    /\ Len(chain) = 3
    /\ chain[1].op = "dir"
    /\ chain[2].op = "join_file" /\ chain[2].ok
    /\ chain[3].op = "join_dir" /\ ~chain[3].ok

\* C10: an ensure() call begun after ensure() has succeeded on the path returns
\* Ok, and none of its steps changes the filesystem.
C10_EnsureIdempotent ==
    [][\A a \in Tasks :
         (again[a] /\ epc[a] # "idle" /\ epc'[a] # epc[a])
         => (fs' = fs /\ (epc'[a] = "idle" => eres'[a] = "Ok"))]_vars

C10_Witness ==
    \E a \in Tasks :
        /\ again[a] /\ epc[a] = "idle" /\ eres[a] = "Ok"
        /\ target.kind = "File" /\ fs[target.path.comps] = "file1"


\* The kind conflicts ensure meets: a Directory-kind path that is a regular file,
\* a File-kind path that is no regular file, a File-kind path under a parent
\* that is no directory.
DirConflict == target.kind = "Directory" /\ is_file(fs, target.path)

FileConflict ==
    target.kind = "File" /\ exists(fs, target.path) /\ ~is_file(fs, target.path)

ParentConflict ==
    /\ target.kind = "File"
    /\ has_parent(target.path)
    /\ exists(fs, parent(target.path))
    /\ ~is_dir(fs, parent(target.path))

\* C11: on a kind conflict ensure() returns the error of that conflict and no
\* step of it changes the filesystem.
C11_ConflictFailsUnchanged ==
    [][\A a \in Tasks :
         /\ (epc[a] = "e_check" /\ epc'[a] # "e_check" /\ DirConflict)
               => (fs' = fs /\ epc'[a] = "idle" /\ eres'[a] = "ErrNotDir")
         /\ (epc[a] = "e_check" /\ epc'[a] # "e_check" /\ FileConflict)
               => (fs' = fs /\ epc'[a] = "idle" /\ eres'[a] = "ErrNotFile")
         /\ (epc[a] = "e_check" /\ epc'[a] # "e_check" /\ ParentConflict)
               => (fs' = fs /\ epc'[a] = "e_parent")
         /\ (epc[a] = "e_parent" /\ epc'[a] # "e_parent" /\ ParentConflict)
               => (fs' = fs /\ epc'[a] = "idle" /\ eres'[a] = "ErrParentNotDir")]_vars

C11_Witness ==
    \E a, b \in Tasks :
        /\ epc[a] = "idle" /\ eres[a] = "ErrNotDir" /\ DirConflict
        /\ epc[b] = "idle" /\ eres[b] = "ErrNotDir"
        /\ fs[target.path.comps] = "file1"


\* What a successful ensure() is to leave behind: the path is a regular file
\* (File) or a directory (Directory), as is_file / is_dir report it, and every
\* proper ancestor is a directory.
EnsurePost(v, f) ==
    /\ IF v.kind = "File" THEN is_file(f, v.path) ELSE is_dir(f, v.path)
    /\ \A q \in Prefixes(v.path.comps) : q # v.path.comps => f[q] = "dir"

Creatable(v) == v.kind = "Directory" \/ v.path.comps # <<>>

\* C13: a create step of ensure() that finds the path (or the parent) already
\* there with the right kind succeeds, and while only ensure() threads act on
\* the filesystem every ensure() call on a creatable path returns Ok.
C13_RaceTolerated ==
    [][\A a \in Tasks :
         /\ (epc[a] = "e_mkdir" /\ epc'[a] # "e_mkdir" /\ is_dir(fs, target.path))
               => (epc'[a] = "idle" /\ eres'[a] = "Ok")
         /\ (epc[a] = "e_create" /\ epc'[a] # "e_create" /\ is_file(fs, target.path))
               => (epc'[a] = "idle" /\ eres'[a] = "Ok")
         /\ (epc[a] = "e_pmk" /\ epc'[a] # "e_pmk" /\ is_dir(fs, parent(target.path)))
               => epc'[a] = "e_create"
         /\ (ext = 0 /\ Creatable(target) /\ epc[a] # "idle" /\ epc'[a] = "idle")
               => eres'[a] = "Ok"]_vars

\* A File-kind path one level down that is an empty file after exactly one step
\* of another process: that step made the file hold data (by creating it, or by
\* writing to it), so a thread past its existence tests has since run
\* File::create on the existing file, and returned Ok.
C13_Witness ==
    \E a \in Tasks :
        /\ target.kind = "File" /\ Len(target.path.comps) = 1
        /\ ext = 1
        /\ fs[target.path.comps] = "file0"
        /\ epc[a] = "idle" /\ eres[a] = "Ok"
        /\ \A b \in Tasks : eres[b] \in {"none", "Ok"}

\* C20: ensure() never alters the content of an existing regular file: a file
\* that holds data holds it after every step.
C20_ContentPreserved ==
    [][\A n \in Nodes : fs[n] = "file1" => fs'[n] = "file1"]_vars


\* The kind the chain's last call yields when it succeeds.
KindOf(o) == IF o \in {"file", "join_file", "get_data_file_path"} THEN "File" ELSE "Directory"

\* C14: a successful join yields the components of the value it was called on
\* followed by those of the segment, for every segment, with the kind of the
\* join: the value joined stays a prefix of the result.
C14_JoinAppends ==
    (chain # <<>> /\ chain[Len(chain)].ok /\ prev # NoValue)
    => (/\ pm.path.comps = prev.path.comps \o seg.comps
        /\ pm.kind = KindOf(chain[Len(chain)].op))


\* C17: once init_launch has returned Ok the cache holds a handle, and no step
\* of any call, failing ones included, empties a cache that holds one.
C17_CacheNeverEmptied ==
    /\ [](\A t \in Tasks :
            (op[t] = "init" /\ pc[t] = "idle" /\ res[t] = "Ok") => cache # 0)
    /\ [][cache # 0 => cache' # 0]_vars

C17_Witness ==
    \E t, u \in Tasks :
        /\ cache # 0
        /\ op[t] = "init" /\ pc[t] = "idle" /\ res[t] \in InitErrs /\ ~startedEmpty[t]
        /\ op[u] = "update" /\ pc[u] = "idle" /\ en[u] /\ res[u] = "ErrPlatform"

\* C19: a call that has returned, with Ok or with Err, neither holds the lock
\* nor waits for it: with no call under way the lock is free.
C19_LockReleasedOnReturn ==
    /\ \A t \in Tasks :
         pc[t] = "idle" => (holder # t /\ \A i \in 1..Len(waiters) : waiters[i] # t)
    /\ (\A t \in Tasks : pc[t] = "idle") => holder = 0

C19_Witness ==
    \E t, u \in Tasks :
        /\ pc[t] = "idle" /\ op[t] = "update" /\ res[t] = "ErrPlatform"
        /\ pc[u] = "idle" /\ op[u] = "update" /\ res[u] \in InitErrs
        /\ holder = 0


\* ------------------------------------------------ the macOS bundle walk
\* A file name as its pieces between dots: "bin", "X.app", ".app", "X.APP".
MacNames == {<<"bin">>, <<"X", "app">>, <<"", "app">>, <<"X", "APP">>}

\* The paths current_exe() may return (line 22).
ExePaths == [abs : BOOLEAN, comps : SeqsUpTo(MacNames, MaxExeDepth)]

\* Path::extension on a file name: what follows the last dot; None when the name
\* has no dot, or only a leading one. An Option is the set of its values.
name_extension(n) ==
    IF Len(n) < 2 THEN {}
    ELSE IF Len(n) = 2 /\ n[1] = "" THEN {}
    ELSE {n[Len(n)]}

\* Path::extension (lines 41, 165): None for a path without a file name.
path_extension(p) ==
    IF p.comps = <<>> THEN {} ELSE name_extension(p.comps[Len(p.comps)])

\* A walk that stops two parents up.
bundle_walk_two_parents(p) ==
    IF ~has_parent(p) THEN {}
    ELSE IF ~has_parent(parent(p)) THEN {}
    ELSE LET root == parent(parent(p)) IN
         IF path_extension(root) = {"app"} THEN {root} ELSE {}

\* Lines 38-46: the closure; each `?` returns None.
bundle_walk(p) ==
    IF ~has_parent(p) THEN {}
    ELSE IF ~has_parent(parent(p)) THEN {}
    ELSE IF ~has_parent(parent(parent(p))) THEN {}
    ELSE LET root == parent(parent(parent(p))) IN
         IF path_extension(root) = {} THEN {}
         ELSE IF path_extension(root) = {"app"} THEN {root}
         ELSE {}

\* Lines 38-47: .unwrap_or(app_path).
mac_app_path(p) ==
    IF bundle_walk(p) = {} THEN p ELSE CHOOSE r \in bundle_walk(p) : TRUE

\* Lines 161-173: the loop of the test, from the path itself upwards.
RECURSIVE test_walk(_)
test_walk(current) ==
    IF ~has_parent(current) THEN {}
    ELSE IF path_extension(current) = {"app"} THEN {current}
    ELSE test_walk(parent(current))

\* Lines 161-174: .unwrap_or(input.to_string()).
test_app_path(p) ==
    IF test_walk(p) = {} THEN p ELSE CHOOSE r \in test_walk(p) : TRUE

\* init_launch computes app_path (lines 37-47).
MacResolve ==
    /\ exe # NoValue
    /\ appPath = <<>>
    /\ appPath' = <<mac_app_path(exe)>>
    /\ UNCHANGED <<exe, testPath>>
    /\ UNCHANGED <<regVars, chainVars, fsVars, globVars>>

\* The test computes its result for the same path (lines 161-174).
MacTestResolve ==
    /\ exe # NoValue
    /\ testPath = <<>>
    /\ testPath' = <<test_app_path(exe)>>
    /\ UNCHANGED <<exe, appPath>>
    /\ UNCHANGED <<regVars, chainVars, fsVars, globVars>>

MacNext == MacResolve \/ MacTestResolve

MacInit ==
    /\ RegInit /\ ~plat /\ ChainIdle /\ FsIdle(NoValue) /\ GlobIdle
    /\ exe \in ExePaths
    /\ appPath = <<>>
    /\ testPath = <<>>

MacSpec == MacInit /\ [][MacNext]_vars

\* The executable sits three levels below a directory named *.app.
AppBundleAt(p) ==
    /\ Len(p.comps) >= 4
    /\ LET n == p.comps[Len(p.comps) - 3] IN
         /\ Len(n) >= 2
         /\ n[Len(n)] = "app"
         /\ ~(Len(n) = 2 /\ n[1] = "")

\* C15: app_path is the third ancestor of the executable when that ancestor's
\* extension is exactly "app", and the executable's own path in every other case.
C15_BundleWalk ==
    appPath # <<>> =>
        appPath[1] = IF AppBundleAt(exe)
                     THEN [abs |-> exe.abs,
                           comps |-> SubSeq(exe.comps, 1, Len(exe.comps) - 3)]
                     ELSE exe

\* A helper bundle nested in a bundle resolves to the helper.
C15_Witness ==
    /\ appPath # <<>>
    /\ exe.comps = <<<<"X", "app">>, <<"X", "app">>, <<"bin">>, <<"bin">>, <<"bin">>>>
    /\ appPath[1].comps = <<<<"X", "app">>, <<"X", "app">>>>

\* C18: the walk of the test and the walk of init_launch give the same result.
C18_TestMatchesCode ==
    (appPath # <<>> /\ testPath # <<>>) => appPath = testPath


\* ------------------------------------------------------- Osys::global
\* Line 13: a thread calls Osys::global().
GlobalCall(t) ==
    /\ gpc[t] = "idle"
    /\ gcalls < MaxGlobalCalls
    /\ gcalls' = gcalls + 1
    /\ gpc' = [gpc EXCEPT ![t] = "g_get"]
    /\ got' = [got EXCEPT ![t] = 0]
    /\ waited' = [waited EXCEPT ![t] = FALSE]
    /\ UNCHANGED <<cellState, cellVal, constructed>>
    /\ UNCHANGED <<regVars, chainVars, fsVars, macVars>>

\* Line 16, get_or_init's first test: a cell already set is returned at once.
GlobalGet(t) ==
    /\ gpc[t] = "g_get"
    /\ IF cellState = "complete"
       THEN /\ got' = [got EXCEPT ![t] = cellVal]
            /\ gpc' = [gpc EXCEPT ![t] = "idle"]
       ELSE /\ got' = got
            /\ gpc' = [gpc EXCEPT ![t] = "g_init"]
    /\ UNCHANGED <<cellState, cellVal, constructed, waited, gcalls>>
    /\ UNCHANGED <<regVars, chainVars, fsVars, macVars>>

\* A get_or_init in which every thread that found the cell unset runs the closure.
GlobalClaimUnsynchronized(t) ==
    /\ gpc[t] = "g_init"
    /\ gpc' = [gpc EXCEPT ![t] = "g_run"]
    /\ cellState' = IF cellState = "complete" THEN cellState ELSE "running"
    /\ waited' = waited
    /\ UNCHANGED <<cellVal, constructed, got, gcalls>>
    /\ UNCHANGED <<regVars, chainVars, fsVars, macVars>>

\* Line 16, get_or_init's slow path: one thread claims the initialization, the
\* others block until it is over.
GlobalClaim(t) ==
    /\ gpc[t] = "g_init"
    /\ IF cellState = "incomplete"
       THEN /\ cellState' = "running"
            /\ gpc' = [gpc EXCEPT ![t] = "g_run"]
            /\ waited' = waited
       ELSE /\ cellState' = cellState
            /\ gpc' = [gpc EXCEPT ![t] = "g_wait"]
            /\ waited' = [waited EXCEPT ![t] = (cellState = "running")]
    /\ UNCHANGED <<cellVal, constructed, got, gcalls>>
    /\ UNCHANGED <<regVars, chainVars, fsVars, macVars>>

\* Lines 16-18: the claiming thread runs the closure, which builds an Osys with an
\* empty cache, and stores it in the cell.
GlobalRun(t) ==
    /\ gpc[t] = "g_run"
    /\ constructed' = constructed + 1
    /\ cellVal' = constructed + 1
    /\ cellState' = "complete"
    /\ gpc' = [gpc EXCEPT ![t] = "g_ret"]
    /\ UNCHANGED <<got, waited, gcalls>>
    /\ UNCHANGED <<regVars, chainVars, fsVars, macVars>>

\* A blocked thread resumes once the cell is set.
GlobalWait(t) ==
    /\ gpc[t] = "g_wait"
    /\ cellState = "complete"
    /\ gpc' = [gpc EXCEPT ![t] = "g_ret"]
    /\ UNCHANGED <<cellState, cellVal, constructed, got, waited, gcalls>>
    /\ UNCHANGED <<regVars, chainVars, fsVars, macVars>>

\* Line 19: global() returns the reference to the cell's content.
GlobalReturn(t) ==
    /\ gpc[t] = "g_ret"
    /\ got' = [got EXCEPT ![t] = cellVal]
    /\ gpc' = [gpc EXCEPT ![t] = "idle"]
    /\ UNCHANGED <<cellState, cellVal, constructed, waited, gcalls>>
    /\ UNCHANGED <<regVars, chainVars, fsVars, macVars>>

GlobalStep(t) ==
    \/ GlobalCall(t)
    \/ GlobalGet(t)
    \/ GlobalClaim(t)
    \/ GlobalRun(t)
    \/ GlobalWait(t)
    \/ GlobalReturn(t)

GlobalNext == \E t \in Tasks : GlobalStep(t)

GlobalInit == RegInit /\ ~plat /\ ChainIdle /\ FsIdle(NoValue) /\ MacIdle /\ GlobIdle

GlobalSpec == GlobalInit /\ [][GlobalNext]_vars

\* C16: the Osys instance is constructed at most once, the cell never changes
\* the instance it holds, and every global() call returns that instance.
C16_SingletonIdentity ==
    /\ [](constructed <= 1)
    /\ [](\A t \in Tasks : got[t] # 0 => (cellVal # 0 /\ got[t] = cellVal))
    /\ [][cellVal # 0 => cellVal' = cellVal]_vars

\* Two threads raced on the first call, one blocked on the other's closure, and
\* both hold the same instance.
C16_Witness ==
    \E t, u \in Tasks :
        /\ t # u
        /\ gpc[t] = "idle" /\ gpc[u] = "idle"
        /\ waited[u]
        /\ got[t] # 0 /\ got[t] = got[u]
        /\ constructed = 1

====
